---- MODULE Spec2Model ----
(***************************************************************************)
(* Model of the BFGS optimizer of                                          *)
(* src/experimental/efficient_validation/bfgs_torch.py.                    *)
(*                                                                         *)
(* Numbers.  A float64 is modelled by an exact extended rational <<n, d>>: *)
(* d > 0 and gcd(n, d) = 1 for a finite value, <<1, 0>> and <<-1, 0>> for  *)
(* +inf and -inf, <<0, 0>> for NaN.  The arithmetic follows IEEE 754 on    *)
(* the special values (x/0, inf - inf, 0 * inf, comparisons with NaN) and  *)
(* is exact, without rounding, on the finite ones.  The sign of a zero is  *)
(* not tracked: where the code divides by a zero the sign of that zero is  *)
(* an input of the division (zs), chosen by the action.                    *)
(*                                                                         *)
(* Units.  Lengths are measured in units of 1e-7, the tolerance of         *)
(* update (line 100), so that the tolerance is the number 1.               *)
(***************************************************************************)
EXTENDS Integers, Sequences, FiniteSets, TLC

\* Number of atoms of the Atoms object (len(self.atoms)).
NAtoms == 2
\* Bound on the number of step() calls explored on one optimizer.
StepBound == 3
\* Bound on the numerators and denominators of the entries of H from which a
\* step() call is explored: the rationals are exact and grow with every
\* rank-two update, the integers that hold them are 32 bits wide.
MaxMag == 3000

Dim == 3 * NAtoms
Idx == 1 .. Dim
AtomIds == 1 .. NAtoms

----------------------------------------------------------------------------
\* Extended rationals: the float64 values of the model.

IAbs(i) == IF i < 0 THEN -i ELSE i

RECURSIVE GCD(_, _)
GCD(a, b) == IF b = 0 THEN a ELSE GCD(b, a % b)

\* The finite value n/d (d # 0), normalised.
Frac(n, d) ==
    LET s == IF d < 0 THEN -1 ELSE 1
        g == GCD(IAbs(n), IAbs(d))
    IN  << (s * n) \div g, (s * d) \div g >>

Num(i) == << i, 1 >>
Zero == << 0, 1 >>
NaN == << 0, 0 >>
Inf(s) == << s, 0 >>

IsNaN(x) == x = NaN
IsInf(x) == x[2] = 0 /\ x[1] # 0
IsFinite(x) == x[2] # 0
Sgn(x) == IF x[1] > 0 THEN 1 ELSE IF x[1] < 0 THEN -1 ELSE 0

FNeg(x) == << -x[1], x[2] >>

FAbs(x) == << IAbs(x[1]), x[2] >>

FAdd(x, y) ==
    IF IsNaN(x) \/ IsNaN(y) THEN NaN
    ELSE IF IsInf(x) THEN (IF IsInf(y) /\ y # x THEN NaN ELSE x)
    ELSE IF IsInf(y) THEN y
    ELSE IF x[1] = 0 THEN y
    ELSE IF y[1] = 0 THEN x
    ELSE IF x[2] = y[2] THEN Frac(x[1] + y[1], x[2])
    ELSE LET g == GCD(x[2], y[2])
         IN  Frac(x[1] * (y[2] \div g) + y[1] * (x[2] \div g), (x[2] \div g) * y[2])

FSub(x, y) == FAdd(x, FNeg(y))

\* The product of two finite values, reduced before it is multiplied out.
MulFinite(x, y) ==
    IF x[1] = 0 \/ y[1] = 0 THEN Zero
    ELSE IF x[2] = 1 /\ y[2] = 1 THEN << x[1] * y[1], 1 >>
    ELSE LET g1 == GCD(IAbs(x[1]), y[2])
             g2 == GCD(IAbs(y[1]), x[2])
         IN  << (x[1] \div g1) * (y[1] \div g2), (x[2] \div g2) * (y[2] \div g1) >>

FMul(x, y) ==
    IF IsNaN(x) \/ IsNaN(y) THEN NaN
    ELSE IF IsInf(x) \/ IsInf(y)
         THEN (IF Sgn(x) * Sgn(y) = 0 THEN NaN ELSE Inf(Sgn(x) * Sgn(y)))
    ELSE MulFinite(x, y)

\* x / y; zs (1 or -1) is the sign of y when y is a zero.
FDiv(x, y, zs) ==
    IF IsNaN(x) \/ IsNaN(y) THEN NaN
    ELSE IF IsInf(y) THEN (IF IsInf(x) THEN NaN ELSE Zero)
    ELSE IF y = Zero THEN (IF Sgn(x) = 0 THEN NaN ELSE Inf(Sgn(x) * zs))
    ELSE IF IsInf(x) THEN Inf(Sgn(x) * Sgn(y))
    ELSE MulFinite(x, << Sgn(y) * y[2], IAbs(y[1]) >>)

\* x < y: false when either is NaN.
FLt(x, y) ==
    IF IsNaN(x) \/ IsNaN(y) THEN FALSE
    ELSE IF IsInf(x) THEN (Sgn(x) < 0 /\ y # x)
    ELSE IF IsInf(y) THEN Sgn(y) > 0
    ELSE IF x[2] = y[2] THEN x[1] < y[1]
    ELSE LET g == GCD(x[2], y[2])
         IN  x[1] * (y[2] \div g) < y[1] * (x[2] \div g)

\* x >= y: false when either is NaN.
FGe(x, y) == ~IsNaN(x) /\ ~IsNaN(y) /\ ~FLt(x, y)

FLe(x, y) == FGe(y, x)

ISqrt(n) == CHOOSE k \in 0 .. n : k * k = n

\* The square root of a value that is NaN, +inf or the square of a rational
\* (the inputs of the model are chosen so that no other value reaches it).
FSqrt(x) ==
    IF IsNaN(x) THEN NaN
    ELSE IF IsInf(x) THEN (IF Sgn(x) > 0 THEN x ELSE NaN)
    ELSE << ISqrt(x[1]), ISqrt(x[2]) >>

RECURSIVE FSum(_, _)
FSum(s, k) == IF k = 0 THEN Zero ELSE FAdd(FSum(s, k - 1), s[k])

\* torch.max of a tensor: NaN when an entry is NaN, else the largest entry.
RECURSIVE FMaxTo(_, _)
FMaxTo(s, k) ==
    IF k = 1 THEN s[1]
    ELSE LET m == FMaxTo(s, k - 1)
         IN  IF IsNaN(m) \/ IsNaN(s[k]) THEN NaN
             ELSE IF FLt(m, s[k]) THEN s[k] ELSE m

FMax(s) == FMaxTo(s, Len(s))

----------------------------------------------------------------------------
\* Tensors: a vector is a sequence of Dim numbers, a matrix a sequence of rows.

\* The sequence f as an explicit tuple (the same value, computed once).
Vec(f) == f \o << >>

VAdd(u, v) == Vec([i \in Idx |-> FAdd(u[i], v[i])])

VSub(u, v) == Vec([i \in Idx |-> FSub(u[i], v[i])])

\* torch.dot
Dot(u, v) == FSum(Vec([i \in Idx |-> FMul(u[i], v[i])]), Dim)

\* torch.matmul(M, v)
MatVec(M, v) == Vec([i \in Idx |-> Dot(M[i], v)])

\* Mutant of Eye: torch.ones in place of torch.eye.
EyeOnes(al) == Vec([i \in Idx |-> Vec([j \in Idx |-> al])])

\* torch.eye(3 * len(self.atoms)) * alpha
Eye(al) == Vec([i \in Idx |-> Vec([j \in Idx |-> IF i = j THEN al ELSE Zero])])

MatFinite(M) == \A i \in Idx : \A j \in Idx : IsFinite(M[i][j])

Symmetric(M) == \A i \in Idx : \A j \in Idx : M[i][j] = M[j][i]

\* The three components of atom p in a flat vector (view(-1, 3)).
Comp(v, p, c) == v[3 * (p - 1) + c]

\* (v ** 2).sum(axis=1), for atom p.
SqNorm(v, p) == FSum(Vec([c \in 1 .. 3 |-> FMul(Comp(v, p, c), Comp(v, p, c))]), 3)

NaNVec == Vec([i \in Idx |-> NaN])

\* The flat vector holding the integer triple t for atom k and zero elsewhere.
Place(t, k) ==
    Vec([i \in Idx |->
            IF ((i - 1) \div 3) + 1 = k THEN Num(t[((i - 1) % 3) + 1]) ELSE Zero])

Halve(v) == Vec([i \in Idx |-> FDiv(v[i], Num(2), 1)])

----------------------------------------------------------------------------
\* The state of one BFGS object and of the Atoms object it drives.

VARIABLES
    pos,        \* atoms.get_positions(), flattened
    frc,        \* atoms.get_forces(), flattened
    mem,        \* the tensor objects: object id -> matrix
    H,          \* self.H: "None" or the id of a tensor object
    H0,         \* self.H0: the id of a tensor object
    r0,         \* self.r0: <<>> (None) or a vector
    f0,         \* self.f0: <<>> (None) or a vector
    maxstep,    \* self.maxstep
    fmax,       \* self.fmax
    alpha,      \* the constructor's alpha
    nsteps,     \* self.nsteps
    max_steps,  \* self.max_steps
    pc,         \* where the caller is: "idle", in run() at "test" or "body",
                \* "done" (run returned), "raised" (an exception left step)
    calls,      \* history: number of step() calls so far
    conv,       \* history: what the last converged() of run returned
    path,       \* history: the path of the last update call ("none" if none)
    zeroden,    \* history: an update divided by a zero a or b
    dr_in,      \* history: the last argument dr of determine_step (<<>> if none)
    dr_out      \* history: what that determine_step returned (<<>> if none)

vars == << pos, frc, mem, H, H0, r0, f0, maxstep, fmax, alpha, nsteps, max_steps,
           pc, calls, conv, path, zeroden, dr_in, dr_out >>

None == << >>

\* The value of self.max_steps that __init__ sets (line 34).
DefaultMaxSteps == 100000000

\* The tolerance of update (line 100), 1e-7, in the length unit of the model.
Tol == 1

\* Forces the Atoms object may report.
ForceConfigs ==
    { Place(<<0, 0, 0>>, 1),
      Place(<<0, 0, 1>>, 1),
      Place(<<0, 0, 2>>, 1),
      VAdd(Place(<<2, 1, 2>>, 1), Place(<<0, 0, -4>>, NAtoms)) }

\* Displacements the eigen-solve may return for a matrix that is not a
\* multiple of the identity.
RawSteps ==
    { Halve(Place(<<0, 0, 1>>, 1)),
      VAdd(Place(<<0, 0, 1>>, 1), Place(<<0, 0, 1>>, NAtoms)),
      VAdd(Place(<<2, 1, 2>>, 1), Place(<<0, -4, 0>>, NAtoms)) }

Init ==
    /\ pos = Vec([i \in Idx |-> Num(i)])
    /\ frc \in ForceConfigs
    /\ alpha \in {Num(1), Num(2)}
    /\ maxstep = Num(2)
    /\ fmax = Num(2)
    /\ mem = [t \in {"eye"} |-> Eye(alpha)]
    /\ H = "None"
    /\ H0 = "eye"
    /\ r0 = None
    /\ f0 = None
    /\ nsteps = 0
    /\ max_steps = DefaultMaxSteps
    /\ pc = "idle"
    /\ calls = 0
    /\ conv = FALSE
    /\ path = "none"
    /\ zeroden = FALSE
    /\ dr_in = None
    /\ dr_out = None

----------------------------------------------------------------------------
\* converged (lines 36-38)

\* Mutant of converged: <= in place of <.
convergedLe ==
    FLe(FMax(Vec([p \in AtomIds |-> SqNorm(frc, p)])), FMul(fmax, fmax))

converged ==
    FLt(FMax(Vec([p \in AtomIds |-> SqNorm(frc, p)])), FMul(fmax, fmax))

----------------------------------------------------------------------------
\* update (lines 94-109)

\* Mutant of Degenerate: a tolerance ten times smaller.
DegenerateTight(dr) ==
    FLt(FMax(Vec([i \in Idx |-> FAbs(dr[i])])), Frac(Tol, 10))

\* torch.abs(dr).max() < 1e-7 (line 100)
Degenerate(dr) == FLt(FMax(Vec([i \in Idx |-> FAbs(dr[i])])), Num(Tol))

\* a, line 105
UpdA(dr, df) == Dot(dr, df)

\* dg, line 106
UpdDg(Hm, dr) == MatVec(Hm, dr)

\* b, line 107
UpdB(dr, dg) == Dot(dr, dg)

\* Mutant of UpdVal: ger(df, dg) in place of ger(dg, dg).
UpdValAsym(df, a, dg, b, zsa, zsb) ==
    Vec([i \in Idx |-> Vec([j \in Idx |->
        FAdd(FDiv(FMul(df[i], df[j]), a, zsa),
             FDiv(FMul(df[i], dg[j]), b, zsb))])])

\* val, line 108 (torch.ger is the outer product); zsa and zsb are the signs
\* of a and b where they are zeros.
UpdVal(df, a, dg, b, zsa, zsb) ==
    Vec([i \in Idx |-> Vec([j \in Idx |->
        FAdd(FDiv(FMul(df[i], df[j]), a, zsa),
             FDiv(FMul(dg[i], dg[j]), b, zsb))])])

\* self.H -= val, line 109: in place, on the tensor object self.H refers to.
SubInPlace(m, ref, val) ==
    [m EXCEPT ![ref] =
        Vec([i \in Idx |-> Vec([j \in Idx |-> FSub(m[ref][i][j], val[i][j])])])]

\* The signs a denominator may have where it is a zero.
ZeroSigns(den) == IF den = Zero THEN {1, -1} ELSE {1}

\* Mutant of UpdateSet: the update is skipped when a or b is a zero.
UpdateSetGuarded(r, f, r0_, f0_) ==
    LET dr == VSub(r, r0_)
        df == VSub(f, f0_)
        a == UpdA(dr, df)
        dg == UpdDg(mem[H], dr)
        b == UpdB(dr, dg)
    IN  IF Degenerate(dr) \/ a = Zero \/ b = Zero
        THEN {[H |-> H, mem |-> mem, path |-> "same", zero |-> FALSE]}
        ELSE {[H |-> H,
               mem |-> SubInPlace(mem, H, UpdVal(df, a, dg, b, 1, 1)),
               path |-> "rank2",
               zero |-> FALSE]}

\* Lines 98-109 of a call that finds self.H set: what it leaves in the tensor
\* objects, the path it took ("same": the return of line 102), and whether it
\* divided by a zero.
UpdateSet(r, f, r0_, f0_) ==
    LET dr == VSub(r, r0_)
        df == VSub(f, f0_)
        a == UpdA(dr, df)
        dg == UpdDg(mem[H], dr)
        b == UpdB(dr, dg)
    IN  IF Degenerate(dr)
        THEN {[H |-> H, mem |-> mem, path |-> "same", zero |-> FALSE]}
        ELSE { [H |-> H,
                mem |-> SubInPlace(mem, H, UpdVal(df, a, dg, b, zsa, zsb)),
                path |-> "rank2",
                zero |-> (a = Zero \/ b = Zero)] :
                    zsa \in ZeroSigns(a), zsb \in ZeroSigns(b) }

\* update(r, f, r0_, f0_): the outcomes of the call (one, unless it divides
\* by a zero, whose sign the model does not track).
update(r, f, r0_, f0_) ==
    IF H = "None"
    THEN {[H |-> H0, mem |-> mem, path |-> "first", zero |-> FALSE]}
    ELSE UpdateSet(r, f, r0_, f0_)

----------------------------------------------------------------------------
\* determine_step (lines 82-92)

\* steplengths1, line 74
StepLengths(dr) == Vec([p \in AtomIds |-> FSqrt(SqNorm(dr, p))])

\* Mutant of determine_step: every atom is capped by its own step length.
determine_step_each(dr, steplengths) ==
    Vec([i \in Idx |->
        LET l == steplengths[((i - 1) \div 3) + 1]
        IN  IF FGe(l, maxstep) THEN FMul(dr[i], FDiv(maxstep, l, 1)) ELSE dr[i]])

determine_step(dr, steplengths) ==
    LET maxsteplength == FMax(steplengths)
    IN  IF FGe(maxsteplength, maxstep)
        THEN LET k == FDiv(maxstep, maxsteplength, 1)
             IN  Vec([i \in Idx |-> FMul(dr[i], k)])
        ELSE dr

----------------------------------------------------------------------------
\* step (lines 61-80)

IsScalar(Hm) == Hm = Eye(Hm[1][1])

\* torch.symeig may raise on a matrix with inf or NaN entries (library
\* behaviour); it does not on a finite symmetric matrix.
SymeigMayRaise(Hm) == ~MatFinite(Hm)

\* dr1 of line 72, V (f V / |omega|): for H = c * I it is f / |c|; for a
\* matrix with inf or NaN entries the eigenvalues are NaN; for any other
\* matrix the eigen-solve is not computed here and its result is one of
\* RawSteps.
Solve(Hm, f) ==
    IF ~MatFinite(Hm) THEN {NaNVec}
    ELSE IF IsScalar(Hm)
    THEN {Vec([i \in Idx |-> FDiv(f[i], FAbs(Hm[1][1]), 1)])}
    ELSE RawSteps

\* set_positions (lines 57-59) and the forces the Atoms object then reports:
\* the same forces at the same positions, any of ForceConfigs at new ones.
SetPositions(upd, fnew) ==
    /\ pos' = VAdd(pos, upd)
    /\ frc' = IF pos' = pos THEN frc ELSE fnew

\* Mutant of Snapshot: the position written back in place of the one read.
SnapshotAfter(r, f) ==
    /\ r0' = pos'
    /\ f0' = f

\* Lines 79-80: the configuration and the forces read at lines 62-63.
Snapshot(r, f) ==
    /\ r0' = r
    /\ f0' = f

\* One call of step() that returns.
StepReturns ==
    \E u \in update(pos, frc, r0, f0) :
        \E dr1 \in Solve(u.mem[u.H], frc) :
            \E out \in {determine_step(dr1, StepLengths(dr1))} :
                \E fnew \in ForceConfigs :
                    /\ H' = u.H
                    /\ mem' = u.mem
                    /\ path' = u.path
                    /\ zeroden' = (zeroden \/ u.zero)
                    /\ dr_in' = dr1
                    /\ dr_out' = out
                    /\ SetPositions(out, fnew)
                    /\ Snapshot(pos, frc)
                    /\ calls' = calls + 1
                    /\ UNCHANGED << H0, maxstep, fmax, alpha, max_steps >>

\* One call of step() that torch.symeig leaves by an exception: update has
\* run, nothing after line 71 has.
StepRaises ==
    \E u \in update(pos, frc, r0, f0) :
        /\ SymeigMayRaise(u.mem[u.H])
        /\ H' = u.H
        /\ mem' = u.mem
        /\ path' = u.path
        /\ zeroden' = (zeroden \/ u.zero)
        /\ calls' = calls + 1
        /\ UNCHANGED << pos, frc, H0, r0, f0, maxstep, fmax, alpha, max_steps,
                        dr_in, dr_out >>

\* The larger of |numerator| and denominator of x.
Mag(x) == IF IAbs(x[1]) > x[2] THEN IAbs(x[1]) ELSE x[2]

\* The entries of H are within the bound MaxMag (inf and NaN entries are).
InRange == H # "None" => \A i \in Idx : \A j \in Idx : Mag(mem[H][i][j]) <= MaxMag

\* step() called by the owner of the optimizer, outside run().
Step ==
    /\ pc = "idle"
    /\ calls < StepBound
    /\ InRange
    /\ StepReturns
    /\ UNCHANGED << nsteps, pc, conv >>

StepError ==
    /\ pc = "idle"
    /\ calls < StepBound
    /\ InRange
    /\ StepRaises
    /\ pc' = "raised"
    /\ UNCHANGED << nsteps, conv >>

----------------------------------------------------------------------------
\* run (lines 40-48)

\* self.max_steps is a placeholder (line 33): the owner assigns the cap.
SetMaxSteps ==
    /\ pc = "idle"
    /\ max_steps = DefaultMaxSteps
    /\ max_steps' \in 1 .. StepBound - 1
    /\ UNCHANGED << pos, frc, mem, H, H0, r0, f0, maxstep, fmax, alpha, nsteps,
                    pc, calls, conv, path, zeroden, dr_in, dr_out >>

RunEnter ==
    /\ pc = "idle"
    /\ pc' = "test"
    /\ UNCHANGED << pos, frc, mem, H, H0, r0, f0, maxstep, fmax, alpha, nsteps,
                    max_steps, calls, conv, path, zeroden, dr_in, dr_out >>

\* Mutant of RunTest: nsteps <= max_steps in place of nsteps < max_steps.
RunTestOffByOne ==
    /\ pc = "test"
    /\ conv' = converged
    /\ pc' = IF ~converged /\ nsteps <= max_steps THEN "body" ELSE "done"
    /\ UNCHANGED << pos, frc, mem, H, H0, r0, f0, maxstep, fmax, alpha, nsteps,
                    max_steps, calls, path, zeroden, dr_in, dr_out >>

\* The loop condition of line 42.
RunTest ==
    /\ pc = "test"
    /\ conv' = converged
    /\ pc' = IF ~converged /\ nsteps < max_steps THEN "body" ELSE "done"
    /\ UNCHANGED << pos, frc, mem, H, H0, r0, f0, maxstep, fmax, alpha, nsteps,
                    max_steps, calls, path, zeroden, dr_in, dr_out >>

\* The loop body, lines 44-48.
RunBody ==
    /\ pc = "body"
    /\ calls < StepBound
    /\ InRange
    /\ StepReturns
    /\ nsteps' = nsteps + 1
    /\ pc' = "test"
    /\ UNCHANGED conv

RunBodyError ==
    /\ pc = "body"
    /\ calls < StepBound
    /\ InRange
    /\ StepRaises
    /\ pc' = "raised"
    /\ UNCHANGED << nsteps, conv >>

Next ==
    \/ Step
    \/ StepError
    \/ SetMaxSteps
    \/ RunEnter
    \/ RunTest
    \/ RunBody
    \/ RunBodyError

Spec == Init /\ [][Next]_vars

\* run() is sequential code: control does not stay at the loop test, nor at
\* the loop body (which the bounds StepBound and MaxMag cut off).
\* Every RunTest step is a LeavesTest step and every RunBody or RunBodyError
\* step a LeavesBody step, and each is enabled where those actions are.
LeavesTest == pc = "test" /\ pc' \in {"body", "done"}

LeavesBody ==
    pc = "body" /\ calls < StepBound /\ InRange /\ pc' \in {"test", "raised"}

FairSpec ==
    /\ Init
    /\ [][Next]_vars
    /\ WF_pc(LeavesTest)
    /\ WF_pc(LeavesBody)

----------------------------------------------------------------------------
\* The claims.

HVal == mem[H]

MaxLen(dr) == FMax(StepLengths(dr))

C2_DegenerateKeepsH ==
    [][ ( /\ calls' = calls + 1
          /\ H # "None"
          /\ \A i \in Idx : FLt(FAbs(FSub(pos[i], r0[i])), Num(Tol)) )
        => (H' = H /\ mem' = mem /\ path' = "same") ]_vars

\* C2 witness: a step took the degenerate path on an H that earlier rank-two
\* updates had changed.
C2_Witness ==
    /\ path = "same"
    /\ calls >= 2
    /\ MatFinite(HVal)
    /\ ~IsScalar(HVal)

\* C3: H is unset until the first update call; that call sets H to exactly
\* alpha * Identity (3N x 3N) on its first path, with no rank-one correction;
\* H is never unset again.
C3_FirstCall ==
    /\ [](calls = 0 => H = "None")
    /\ [][ (H = "None" /\ calls' = calls + 1) =>
            /\ H' # "None"
            /\ path' = "first"
            /\ Len(mem'[H']) = 3 * NAtoms
            /\ \A i \in Idx :
                /\ Len(mem'[H'][i]) = 3 * NAtoms
                /\ \A j \in Idx : mem'[H'][i][j] = IF i = j THEN alpha ELSE Zero ]_vars
    /\ [][H # "None" => H' # "None"]_vars

C3_Witness == calls = 1 /\ H # "None" /\ path = "first"

\* C4: converged() is true iff every atom's squared force is strictly below
\* fmax^2; it is false when the largest one is exactly fmax^2.
C4_ConvergedStrict ==
    pc \in {"body", "done"} =>
        /\ conv <=> \A p \in AtomIds : FLt(SqNorm(frc, p), FMul(fmax, fmax))
        /\ (\E p \in AtomIds : SqNorm(frc, p) = FMul(fmax, fmax)) => ~conv

C4_Witness ==
    /\ pc = "body"
    /\ ~conv
    /\ \E p \in AtomIds : SqNorm(frc, p) = FMul(fmax, fmax)
    /\ \A p \in AtomIds : FLe(SqNorm(frc, p), FMul(fmax, fmax))

\* C5: run() calls step() only after a loop test that found converged() false
\* and nsteps < max_steps, adds exactly one to nsteps per step() call, returns
\* only when converged() held or nsteps reached max_steps, and terminates
\* (within the explored bounds: until StepBound calls, or H beyond MaxMag).
C5_RunLoop ==
    /\ [](pc = "body" => (~conv /\ nsteps < max_steps))
    /\ [](pc = "done" => (conv \/ nsteps >= max_steps))
    /\ [][nsteps' # nsteps =>
            (pc = "body" /\ nsteps' = nsteps + 1 /\ calls' = calls + 1)]_vars
    /\ [][(pc \in {"test", "body"} /\ calls' = calls + 1) =>
            (pc = "body" /\ (nsteps' = nsteps + 1 \/ pc' = "raised"))]_vars
    /\ (pc = "test") ~> (pc \in {"done", "raised"} \/ calls = StepBound \/ ~InRange)

\* C5 witness: run() returned at the cap without convergence.
C5_Witness == pc = "done" /\ ~conv /\ nsteps = max_steps /\ nsteps > 0

\* C6: r0 and f0 are unset together (only until the first step returns) and
\* set together; a step that returns leaves in them the position and the
\* forces it read, not the position it wrote back; nothing else changes them.
C6_Snapshot ==
    /\ []((r0 = None <=> f0 = None) /\ (r0 = None <=> dr_out = None))
    /\ [][(calls' = calls + 1 /\ pc' # "raised") => (r0' = pos /\ f0' = frc)]_vars
    /\ [][(r0' # r0 \/ f0' # f0) =>
            (calls' = calls + 1 /\ r0' = pos /\ f0' = frc)]_vars

\* C6 witness: after a step the snapshot differs from the position written back.
C6_Witness == r0 # None /\ f0 # None /\ r0 # pos /\ calls >= 2

\* C7: as long as no update divided by a zero, H is symmetric.
C7_Symmetric == (H # "None" /\ ~zeroden) => Symmetric(HVal)

\* C7 witness: a rank-two update with nonzero denominators left off-diagonal
\* entries in H.
C7_Witness ==
    /\ H # "None"
    /\ ~zeroden
    /\ path = "rank2"
    /\ \E i \in Idx : \E j \in Idx : i # j /\ HVal[i][j] # Zero

\* C8: determine_step multiplies every component by maxstep / maxsteplength
\* when maxsteplength >= maxstep, and returns dr unchanged when it is < maxstep.
C8_UniformRescale ==
    dr_out # None =>
        /\ FGe(MaxLen(dr_in), maxstep) =>
              \A i \in Idx :
                  dr_out[i] = FMul(dr_in[i], FDiv(maxstep, MaxLen(dr_in), 1))
        /\ FLt(MaxLen(dr_in), maxstep) => dr_out = dr_in

\* C8 witness: a capped step in which two atoms moved, by different lengths.
C8_Witness ==
    /\ dr_out # None
    /\ FLt(maxstep, MaxLen(dr_in))
    /\ \E p \in AtomIds :
          /\ FLt(Zero, StepLengths(dr_in)[p])
          /\ FLt(StepLengths(dr_in)[p], MaxLen(dr_in))

\* C9: an update on a non-degenerate step whose a or b is zero is not skipped
\* and leaves inf or NaN entries in H; once H has such entries no later call
\* makes it finite again.
C9_ZeroDenominator ==
    /\ [][ ( /\ calls' = calls + 1
             /\ H # "None"
             /\ ~FLt(FMax(Vec([i \in Idx |-> FAbs(FSub(pos[i], r0[i]))])), Num(Tol))
             /\ \/ Dot(VSub(pos, r0), VSub(frc, f0)) = Zero
                \/ Dot(VSub(pos, r0), MatVec(HVal, VSub(pos, r0))) = Zero )
           => (path' = "rank2" /\ H' = H /\ ~MatFinite(mem'[H'])) ]_vars
    /\ [][(H # "None" /\ ~MatFinite(HVal)) => (H' = H /\ ~MatFinite(mem'[H']))]_vars

\* C9 witness: a later rank-two update ran on an H that an earlier division
\* by zero had left non-finite.
C9_Witness ==
    /\ zeroden
    /\ path = "rank2"
    /\ calls = 3
    /\ ~MatFinite(HVal)

\* C10: the matrix self.H0 refers to is alpha * Identity in every state.
C10_H0Constant ==
    \A i \in Idx : \A j \in Idx : mem[H0][i][j] = IF i = j THEN alpha ELSE Zero

====
